---- MODULE Spec2Model ----
(***************************************************************************)
(* A model of schemareader.ReadTables (src/schemareader/reader.go): the    *)
(* assembly of Table entities from catalog metadata, the provisional       *)
(* election of each table's main unique index, and the correction pass     *)
(* that revokes an election whose index covers a column referencing a      *)
(* sequence-generated id.                                                  *)
(*                                                                         *)
(* The database catalog is the variable db; it does not change during a    *)
(* run.  The provider functions of reader.go are operators over db.  An    *)
(* answer the SQL leaves unordered (no ORDER BY), Go's randomized map       *)
(* iteration, and the outcome of reading a row are choices made by the     *)
(* environment in the action that performs the read.                       *)
(***************************************************************************)
EXTENDS Integers, Sequences, FiniteSets, TLC

VARIABLES
    db,           \* the catalog the provider functions query
    pc,           \* "assemble" (loop of lines 268-308), "correct" (lines 311-328), "done", "fatal"
    i,            \* number of tables the current loop has completed
    result,       \* the slice `result` of ReadTables
    provisional,  \* history: MainUniqueIndexName of each table as appended at line 307
    readFailed,   \* history: some catalog read of this run has failed
    previous      \* history: the main index names the preceding run returned, << >> if none

vars == <<db, pc, i, result, provisional, readFailed, previous>>

(***************************************************************************)
(* Bounds of the model.                                                    *)
(***************************************************************************)
MaxIndexes == 2   \* unique indexes of the table whose indexes vary
MaxRefs == 1      \* foreign keys of the table whose references vary

(***************************************************************************)
(* Names.  Strings that the SQL of readPKSequence rewrites are spelled     *)
(* out, character by character, by Spell.                                  *)
(***************************************************************************)
tableNames == <<"rhnerrata", "rhnarchtype">>

OutsideTable == "web_customer"

Spell ==
    "rhn_errata_id_pk" :> <<"r","h","n","_","e","r","r","a","t","a","_","i","d","_","p","k">>
 @@ "rhn_errata_pkey" :> <<"r","h","n","_","e","r","r","a","t","a","_","p","k","e","y">>
 @@ "rhn_archtype_id_pk" :> <<"r","h","n","_","a","r","c","h","t","y","p","e","_","i","d","_","p","k">>
 @@ "rhn_errata_id_seq" :> <<"r","h","n","_","e","r","r","a","t","a","_","i","d","_","s","e","q">>
 @@ "rhnerrata_seq" :> <<"r","h","n","e","r","r","a","t","a","_","s","e","q">>
 @@ "rhn_archtype_id_seq" :> <<"r","h","n","_","a","r","c","h","t","y","p","e","_","i","d","_","s","e","q">>

(***************************************************************************)
(* The SQL of readPKSequence (lines 225-248).                              *)
(***************************************************************************)
HasAt(s, p, pat) ==
    /\ p + Len(pat) - 1 <= Len(s)
    /\ \A k \in 1..Len(pat) : s[p + k - 1] = pat[k]

\* Length of the match of (prefix)?core(suffix)? that starts at p; 0 if none.
\* The quantifiers are greedy: the longest match at p is taken.
MatchLenAt(s, p, prefix, core, suffix) ==
    LET head == IF HasAt(s, p, prefix \o core) THEN Len(prefix) + Len(core)
                ELSE IF HasAt(s, p, core) THEN Len(core)
                ELSE 0
    IN  IF head = 0 THEN 0
        ELSE IF Len(suffix) > 0 /\ HasAt(s, p + head, suffix) THEN head + Len(suffix)
        ELSE head

\* regexp_replace(s, '(prefix)?core(suffix)?', ''): without the 'g' flag only
\* the leftmost match is removed.
regexp_replace(s, prefix, core, suffix) ==
    LET starts == {p \in 1..Len(s) : MatchLenAt(s, p, prefix, core, suffix) > 0}
    IN  IF starts = {} THEN s
        ELSE LET p == CHOOSE q \in starts : \A r \in starts : q <= r
                 n == MatchLenAt(s, p, prefix, core, suffix)
             IN  SubSeq(s, 1, p - 1) \o SubSeq(s, p + n, Len(s))

\* replace(s, ch, ''): every occurrence of ch is removed.
replace(s, ch) == SelectSeq(s, LAMBDA c : c # ch)

\* replace(regexp_replace(constraint_name, '(_id)?_pk(ey)?', ''), '_', '')
NormalizeConstraint(name) ==
    replace(regexp_replace(Spell[name], <<"_","i","d">>, <<"_","p","k">>, <<"e","y">>), "_")

\* replace(regexp_replace(sequence_name, '(_id)?_seq', ''), '_', '')
NormalizeSequence(name) ==
    replace(regexp_replace(Spell[name], <<"_","i","d">>, <<"_","s","e","q">>, << >>), "_")

\* The rows of id_constraints: the table's primary-key constraint, when the
\* column at ordinal position 1 of the key is named id.
IdConstraints(cat, tableName) ==
    LET t == cat.tables[tableName]
    IN  IF Len(t.pkColumns) >= 1 /\ t.pkColumns[1] = "id" THEN {t.pkName} ELSE {}

\* The rows of the final SELECT: the join of id_constraints and sequences.
PKSequenceRows(cat, tableName) ==
    {s \in cat.sequences :
        \E c \in IdConstraints(cat, tableName) : NormalizeConstraint(c) = NormalizeSequence(s)}

(***************************************************************************)
(* The provider functions.  A failed db.Query, or a failed rows.Scan in a  *)
(* loop reader, ends the process (log.Fatal): the action AssembleFatal.    *)
(* readPKSequence and readReferencedTable read their row without looking   *)
(* at what rows.Next and rows.Scan return, so a failed row read leaves     *)
(* `name` at its zero value.                                               *)
(***************************************************************************)
RowOutcomes == {"ok", "rowError"}

readColumnNames(cat, tableName) == cat.tables[tableName].columns

\* The list is turned into the map pkColumnMap (lines 272-275): a set.
readPKColumnNames(cat, tableName) ==
    {cat.tables[tableName].pkColumns[k] : k \in 1..Len(cat.tables[tableName].pkColumns)}

\* The values `name` can hold at line 260.
readPKSequence(cat, tableName, outcome) ==
    IF outcome = "rowError" \/ PKSequenceRows(cat, tableName) = {}
    THEN {""}
    ELSE PKSequenceRows(cat, tableName)

Orderings(S) ==
    {s \in [1..Cardinality(S) -> S] : \A a, b \in 1..Cardinality(S) : a # b => s[a] # s[b]}

\* SELECT DISTINCT without ORDER BY: the names in any order.
readUniqueIndexNames(cat, tableName) == Orderings(DOMAIN cat.tables[tableName].indexes)

\* The columns of an index; only membership is ever asked of them.
readIndexColumns(cat, tableName, indexName) == cat.tables[tableName].indexes[indexName]

\* The foreign keys of the table, in the order the catalog answers.
readReferenceConstraintNames(cat, tableName) == cat.tables[tableName].constraints

readReferenceConstraints(constraint) == constraint.ColumnMapping

readReferencedTable(constraint, outcome) ==
    IF outcome = "rowError" THEN "" ELSE constraint.TableName

(***************************************************************************)
(* Election of the provisional main unique index (lines 213-222, 286-297). *)
(***************************************************************************)
\* findIndex returning the column it met instead of the index's name.
findIndexColumn(indexes, columnName) ==
    LET hits == {name \in DOMAIN indexes : columnName \in indexes[name].Columns}
    IN  IF hits = {} THEN {""} ELSE {columnName}

\* The values findIndex can return: Go iterates a map in an unspecified order,
\* so any index covering columnName may be the first one met.
findIndex(indexes, columnName) ==
    LET hits == {name \in DOMAIN indexes : columnName \in indexes[name].Columns}
    IN  IF hits = {} THEN {""} ELSE hits

\* Elect with `name` looked for before `label`.
ElectNameFirst(indexNames, indexes) ==
    IF Len(indexNames) = 1 THEN {indexNames[1]}
    ELSE IF Len(indexNames) > 1 THEN
        IF findIndex(indexes, "name") # {""} THEN findIndex(indexes, "name")
        ELSE IF findIndex(indexes, "label") # {""} THEN findIndex(indexes, "label")
        ELSE {indexNames[1]}
    ELSE {""}

\* Elect with the single index looked up by column, as the others are.
ElectSingleByLabel(indexNames, indexes) ==
    IF Len(indexNames) = 1 THEN findIndex(indexes, "label")
    ELSE IF Len(indexNames) > 1 THEN
        IF findIndex(indexes, "label") # {""} THEN findIndex(indexes, "label")
        ELSE IF findIndex(indexes, "name") # {""} THEN findIndex(indexes, "name")
        ELSE {indexNames[1]}
    ELSE {""}

\* The values mainUniqueIndexName can hold at line 298.
Elect(indexNames, indexes) ==
    IF Len(indexNames) = 1 THEN {indexNames[1]}
    ELSE IF Len(indexNames) > 1 THEN
        IF findIndex(indexes, "label") # {""} THEN findIndex(indexes, "label")
        ELSE IF findIndex(indexes, "name") # {""} THEN findIndex(indexes, "name")
        ELSE {indexNames[1]}
    ELSE {""}

(***************************************************************************)
(* The correction pass (lines 311-328).                                    *)
(***************************************************************************)
\* reference.ColumnMapping[column]: a missing key reads as the empty string.
ReferencedColumn(reference, column) ==
    IF column \in DOMAIN reference.ColumnMapping THEN reference.ColumnMapping[column] ELSE ""

\* The lookup of lines 317-318 passing over the table being corrected.
ReferencedTablesButSelf(tables, k, reference) ==
    {j \in 1..Len(tables) : j # k /\ tables[j].Name = reference.TableName}

\* Lines 317-318: the tables of `result` named by the reference.
ReferencedTables(tables, k, reference) ==
    {j \in 1..Len(tables) : tables[j].Name = reference.TableName}

\* Line 319 left out.
HasSequenceUnchecked(referencedTable) == TRUE

\* Line 319.
HasSequence(referencedTable) == referencedTable.PKSequence # ""

\* Whether the iteration for tables[k] reaches line 320.
Revokes(tables, k) ==
    LET table == tables[k]
    IN  /\ table.MainUniqueIndexName # ""
        /\ \E column \in table.UniqueIndexes[table.MainUniqueIndexName].Columns :
             \E r \in 1..Len(table.References) :
                /\ ReferencedColumn(table.References[r], column) = "id"
                /\ \E j \in ReferencedTables(tables, k, table.References[r]) :
                      HasSequence(tables[j])

\* A revocation that elects another unique index of the table, if it has one.
CorrectOneReelect(tables, k) ==
    IF Revokes(tables, k)
    THEN LET others == DOMAIN tables[k].UniqueIndexes \ {tables[k].MainUniqueIndexName}
         IN  [tables EXCEPT ![k].MainUniqueIndexName =
                 IF others = {} THEN "" ELSE CHOOSE name \in others : TRUE]
    ELSE tables

\* A revocation that also forgets the revoked index.
CorrectOneForgets(tables, k) ==
    IF Revokes(tables, k)
    THEN [tables EXCEPT ![k].MainUniqueIndexName = "",
                        ![k].UniqueIndexes =
                            [name \in DOMAIN @ \ {tables[k].MainUniqueIndexName} |-> @[name]]]
    ELSE tables

\* One iteration of the loop of line 311.
CorrectOne(tables, k) ==
    IF Revokes(tables, k)
    THEN [tables EXCEPT ![k].MainUniqueIndexName = ""]
    ELSE tables

\* The whole loop, from table k on.
RECURSIVE CorrectFrom(_, _)
CorrectFrom(tables, k) ==
    IF k > Len(tables) THEN tables ELSE CorrectFrom(CorrectOne(tables, k), k + 1)

CorrectionPass(tables) == CorrectFrom(tables, 1)

MainNames(tables) == [k \in 1..Len(tables) |-> tables[k].MainUniqueIndexName]

(***************************************************************************)
(* The catalogs the model is run on.  One table (the varied one) ranges    *)
(* over every set of up to MaxIndexes unique indexes and every list of up  *)
(* to MaxRefs foreign keys drawn from the pools below; the other is drawn  *)
(* from PlainShapes.  Index names are interchangeable and the provider's   *)
(* order is chosen when the names are read, so only one assignment of      *)
(* column sets to names is kept per multiset of column sets.               *)
(***************************************************************************)
AllColumns == <<"id", "label", "name", "org_id">>

IndexNamePool == <<"uq_a", "uq_b", "uq_c", "uq_d">>

ColumnSetPool == <<{"label"}, {"label", "org_id"}, {"name", "org_id"}, {"org_id"}>>

ReferencePool ==
    << [TableName |-> tableNames[1], ColumnMapping |-> ("org_id" :> "id")],
       [TableName |-> tableNames[2], ColumnMapping |-> ("org_id" :> "id")],
       [TableName |-> OutsideTable, ColumnMapping |-> ("org_id" :> "id")],
       [TableName |-> tableNames[2], ColumnMapping |-> ("org_id" :> "label")] >>

NonDecreasing(n, m) ==
    {f \in [1..n -> 1..m] : \A a, b \in 1..n : a <= b => f[a] <= f[b]}

IndexesOf(f) ==
    [name \in {IndexNamePool[k] : k \in DOMAIN f} |->
        ColumnSetPool[f[CHOOSE k \in DOMAIN f : IndexNamePool[k] = name]]]

VariedIndexes ==
    UNION {{IndexesOf(f) : f \in NonDecreasing(n, Len(ColumnSetPool))} : n \in 0..MaxIndexes}

VariedConstraints ==
    UNION {{[k \in 1..n |-> ReferencePool[f[k]]] : f \in NonDecreasing(n, Len(ReferencePool))} :
              n \in 0..MaxRefs}

PlainShapes(other) ==
    { [indexes |-> << >>, constraints |-> << >>],
      [indexes |-> ("uq_a" :> {"org_id"}), constraints |-> << >>],
      [indexes |-> ("uq_a" :> {"org_id"}),
       constraints |-> << [TableName |-> other, ColumnMapping |-> ("org_id" :> "id")] >>] }

VariedShapes == [indexes : VariedIndexes, constraints : VariedConstraints]

PKName == (tableNames[1] :> "rhn_errata_id_pk") @@ (tableNames[2] :> "rhn_archtype_id_pk")

TableFacts(shape, pkName, pkColumns) ==
    [columns |-> AllColumns, pkName |-> pkName, pkColumns |-> pkColumns,
     indexes |-> shape.indexes, constraints |-> shape.constraints]

Catalogs ==
    { [sequences |-> seqs,
       tables |-> (tableNames[v] :> TableFacts(varied, PKName[tableNames[v]], <<"id">>))
              @@ (tableNames[3 - v] :> TableFacts(plain, PKName[tableNames[3 - v]], <<"id">>))] :
        seqs \in SUBSET {"rhn_errata_id_seq", "rhn_archtype_id_seq"},
        v \in 1..2,
        varied \in VariedShapes,
        plain \in UNION {PlainShapes(tableNames[w]) : w \in 1..2} }

Init ==
    /\ db \in Catalogs
    /\ pc = "assemble"
    /\ i = 0
    /\ result = << >>
    /\ provisional = << >>
    /\ readFailed = FALSE
    /\ previous = << >>

(***************************************************************************)
(* ReadTables.                                                             *)
(***************************************************************************)
\* One iteration of the loop of lines 268-308 in which every query answers;
\* rowOutcomes are the outcomes the row reads of readPKSequence and
\* readReferencedTable may have.
AssembleTable(rowOutcomes) ==
    /\ pc = "assemble"
    /\ i < Len(tableNames)
    /\ LET tableName == tableNames[i + 1]
           constraints == readReferenceConstraintNames(db, tableName)
       IN  \E indexNames \in readUniqueIndexNames(db, tableName),
              pkOutcome \in rowOutcomes,
              refOutcome \in [1..Len(constraints) -> rowOutcomes] :
             LET indexes == [name \in {indexNames[k] : k \in 1..Len(indexNames)} |->
                               [Name |-> name,
                                Columns |-> readIndexColumns(db, tableName, name)]]
                 references == [k \in 1..Len(constraints) |->
                                  [TableName |-> readReferencedTable(constraints[k], refOutcome[k]),
                                   ColumnMapping |-> readReferenceConstraints(constraints[k])]]
             IN  \E pkSequence \in readPKSequence(db, tableName, pkOutcome),
                    mainUniqueIndexName \in Elect(indexNames, indexes) :
                   /\ result' = Append(result,
                          [Name |-> tableName,
                           Columns |-> readColumnNames(db, tableName),
                           PKColumns |-> readPKColumnNames(db, tableName),
                           PKSequence |-> pkSequence,
                           UniqueIndexes |-> indexes,
                           MainUniqueIndexName |-> mainUniqueIndexName,
                           References |-> references])
                   /\ provisional' = Append(provisional, mainUniqueIndexName)
                   /\ readFailed' = (readFailed \/ pkOutcome = "rowError"
                                       \/ \E k \in DOMAIN refOutcome : refOutcome[k] = "rowError")
    /\ i' = i + 1
    /\ UNCHANGED <<db, pc, previous>>

\* A query of the iteration fails, or a row of a loop reader cannot be
\* scanned: log.Fatal ends the process and nothing is returned.
AssembleFatal ==
    /\ pc = "assemble"
    /\ i < Len(tableNames)
    /\ pc' = "fatal"
    /\ result' = << >>
    /\ provisional' = << >>
    /\ i' = 0
    /\ readFailed' = TRUE
    /\ UNCHANGED <<db, previous>>

\* The loop of line 268 ends; the loop of line 311 starts.
StartCorrection ==
    /\ pc = "assemble"
    /\ i = Len(tableNames)
    /\ pc' = "correct"
    /\ i' = 0
    /\ UNCHANGED <<db, result, provisional, readFailed, previous>>

\* One iteration of the loop of lines 311-328.
CorrectTable ==
    /\ pc = "correct"
    /\ i < Len(result)
    /\ result' = CorrectOne(result, i + 1)
    /\ i' = i + 1
    /\ UNCHANGED <<db, pc, provisional, readFailed, previous>>

\* Line 330.
Return ==
    /\ pc = "correct"
    /\ i = Len(result)
    /\ pc' = "done"
    /\ UNCHANGED <<db, i, result, provisional, readFailed, previous>>

\* ReadTables is called again on the same database.  The names the run
\* returned are remembered if all of its reads succeeded.
CallAgain ==
    /\ pc = "done"
    /\ pc' = "assemble"
    /\ i' = 0
    /\ result' = << >>
    /\ provisional' = << >>
    /\ readFailed' = FALSE
    /\ previous' = IF readFailed THEN << >> ELSE MainNames(result)
    /\ UNCHANGED db

\* One call of ReadTables on a database whose rows can be read.
Next ==
    \/ AssembleTable({"ok"})
    \/ AssembleFatal
    \/ StartCorrection
    \/ CorrectTable
    \/ Return

Spec == Init /\ [][Next]_vars

\* One call of ReadTables; reading a row may fail.
NextFaulty ==
    \/ AssembleTable(RowOutcomes)
    \/ AssembleFatal
    \/ StartCorrection
    \/ CorrectTable
    \/ Return

SpecFaulty == Init /\ [][NextFaulty]_vars

\* Calls of ReadTables, one after the other, on the same database.
NextAgain ==
    \/ AssembleTable({"ok"})
    \/ AssembleFatal
    \/ StartCorrection
    \/ CorrectTable
    \/ Return
    \/ CallAgain

SpecAgain == Init /\ [][NextAgain]_vars

(***************************************************************************)
(* The catalogs on which readPKSequence is examined: the primary keys and  *)
(* the sequences vary; every table has one unique index, on a column that  *)
(* references the id of the other table.                                   *)
(***************************************************************************)
PKNamePool ==
    (tableNames[1] :> {"rhn_errata_id_pk", "rhn_errata_pkey"})
 @@ (tableNames[2] :> {"rhn_archtype_id_pk"})

PKColumnPool == {<<"id">>, <<"id", "org_id">>, <<"org_id", "id">>, <<"label">>, << >>}

SequencePool == {"rhn_errata_id_seq", "rhnerrata_seq", "rhn_archtype_id_seq"}

ReferringShape(other) ==
    [indexes |-> ("uq_a" :> {"org_id"}),
     constraints |-> << [TableName |-> other, ColumnMapping |-> ("org_id" :> "id")] >>]

PKCatalogs ==
    { [sequences |-> seqs,
       tables |-> (tableNames[1] :> TableFacts(ReferringShape(tableNames[2]), pkName1, pkColumns1))
              @@ (tableNames[2] :> TableFacts(ReferringShape(tableNames[1]), pkName2, pkColumns2))] :
        seqs \in SUBSET SequencePool,
        pkName1 \in PKNamePool[tableNames[1]], pkColumns1 \in PKColumnPool,
        pkName2 \in PKNamePool[tableNames[2]], pkColumns2 \in PKColumnPool }

InitPK ==
    /\ db \in PKCatalogs
    /\ pc = "assemble"
    /\ i = 0
    /\ result = << >>
    /\ provisional = << >>
    /\ readFailed = FALSE
    /\ previous = << >>

SpecPK == InitPK /\ [][Next]_vars

(***************************************************************************)
(* Properties.                                                             *)
(***************************************************************************)
\* Reference r of table k maps `column` to a referenced column named id.
MapsToId(k, r, column) ==
    /\ column \in DOMAIN result[k].References[r].ColumnMapping
    /\ result[k].References[r].ColumnMapping[column] = "id"

\* The tables of the assembled set that reference r of table k names.
Named(k, r) == {j \in 1..Len(result) : result[j].Name = result[k].References[r].TableName}

\* The columns of the provisionally elected index of table k.
ProvisionalColumns(k) ==
    IF provisional[k] = "" THEN {} ELSE result[k].UniqueIndexes[provisional[k]].Columns

\* Some column of table k's provisional index is mapped to the id of a table
\* of the set that has a primary-key sequence.
PointsAtSequence(k) ==
    \E column \in ProvisionalColumns(k) : \E r \in 1..Len(result[k].References) :
        /\ MapsToId(k, r, column)
        /\ \E j \in Named(k, r) : result[j].PKSequence # ""

\* C1: once ReadTables has returned, a table whose provisionally elected index
\* covers a column that one of its references maps to `id` of a table with a
\* non-empty PKSequence (itself included) has an empty MainUniqueIndexName.
C1_Revocation ==
    pc = "done" =>
        \A k \in 1..Len(result) : PointsAtSequence(k) => result[k].MainUniqueIndexName = ""

\* A returned table whose election was revoked on account of a reference to
\* the table itself, and of no other reference.
C1_Witness ==
    /\ pc = "done"
    /\ \E k \in 1..Len(result) :
        /\ provisional[k] # ""
        /\ result[k].MainUniqueIndexName = ""
        /\ result[k].PKSequence # ""
        /\ \E column \in ProvisionalColumns(k) : \E r \in 1..Len(result[k].References) :
              MapsToId(k, r, column) /\ Named(k, r) = {k}
        /\ \A column \in ProvisionalColumns(k) : \A r \in 1..Len(result[k].References) :
              MapsToId(k, r, column) => Named(k, r) = {k}

\* C2: once ReadTables has returned, a table keeps its provisional
\* MainUniqueIndexName if, for every column of the provisional index and every
\* reference, the reference does not map the column to `id`, or names no table
\* of the set, or names a table whose PKSequence is empty.
C2_NonRevocation ==
    pc = "done" =>
        \A k \in 1..Len(result) :
            (\A column \in ProvisionalColumns(k) : \A r \in 1..Len(result[k].References) :
                \/ ~MapsToId(k, r, column)
                \/ Named(k, r) = {}
                \/ \A j \in Named(k, r) : result[j].PKSequence = "")
            => result[k].MainUniqueIndexName = provisional[k]

\* A returned table that kept its election although a column of the index is
\* mapped to the id of a table of the set: that table has no sequence.
C2_Witness ==
    /\ pc = "done"
    /\ \E k \in 1..Len(result) :
        /\ provisional[k] # ""
        /\ result[k].MainUniqueIndexName = provisional[k]
        /\ \E column \in ProvisionalColumns(k) : \E r \in 1..Len(result[k].References) :
              /\ MapsToId(k, r, column)
              /\ Named(k, r) # {}
              /\ \A j \in Named(k, r) : result[j].PKSequence = ""

\* The unique indexes of table k that cover `column`.
Covering(k, column) ==
    {name \in DOMAIN result[k].UniqueIndexes : column \in result[k].UniqueIndexes[name].Columns}

\* C3: the provisionally elected index of a table covers `label` whenever one
\* of the table's unique indexes does; otherwise, when the table has more than
\* one unique index and one of them covers `name`, it covers `name`.
C3_ElectionPriority ==
    \A k \in 1..Len(result) :
        IF Covering(k, "label") # {}
        THEN provisional[k] \in Covering(k, "label")
        ELSE (Cardinality(DOMAIN result[k].UniqueIndexes) > 1 /\ Covering(k, "name") # {})
                => provisional[k] \in Covering(k, "name")

\* A table with an index on `label` and another on `name` but not `label`; the
\* one elected covers `label`.
C3_Witness ==
    \E k \in 1..Len(result) :
        /\ Covering(k, "name") \ Covering(k, "label") # {}
        /\ provisional[k] \in Covering(k, "label")

\* C4: a table with exactly one unique index has that index's name as its
\* provisional MainUniqueIndexName, whatever the index covers; a table with
\* none has the empty string.
C4_SingleOrNone ==
    \A k \in 1..Len(result) :
        /\ Cardinality(DOMAIN result[k].UniqueIndexes) = 1
              => provisional[k] \in DOMAIN result[k].UniqueIndexes
        /\ DOMAIN result[k].UniqueIndexes = {} => provisional[k] = ""

\* A table whose only unique index covers neither `label` nor `name`, elected.
C4_Witness ==
    \E k \in 1..Len(result) :
        /\ Cardinality(DOMAIN result[k].UniqueIndexes) = 1
        /\ Covering(k, "label") = {} /\ Covering(k, "name") = {}
        /\ provisional[k] \in DOMAIN result[k].UniqueIndexes

\* C5: at every point of ReadTables, the MainUniqueIndexName of every table of
\* `result` is empty or a key of the table's UniqueIndexes.
C5_MainIsAKey ==
    \A k \in 1..Len(result) :
        \/ result[k].MainUniqueIndexName = ""
        \/ result[k].MainUniqueIndexName \in DOMAIN result[k].UniqueIndexes

\* A returned table that has several unique indexes and kept the elected one,
\* found by findIndex.
C5_Witness ==
    /\ pc = "done"
    /\ \E k \in 1..Len(result) :
        /\ Cardinality(DOMAIN result[k].UniqueIndexes) > 1
        /\ result[k].MainUniqueIndexName \in Covering(k, "label") \cup Covering(k, "name")

\* C6: the correction pass, applied to the tables the correction pass of
\* ReadTables produced, changes nothing.
C6_Idempotent ==
    pc = "done" => CorrectionPass(result) = result

\* A returned set in which the pass revoked the election of a table that has
\* a second unique index covering the same referencing column.
C6_Witness ==
    /\ pc = "done"
    /\ \E k \in 1..Len(result) :
        /\ provisional[k] # ""
        /\ result[k].MainUniqueIndexName = ""
        /\ \E column \in ProvisionalColumns(k) : Cardinality(Covering(k, column)) > 1

\* C7: a run in which a catalog read failed returns nothing; in particular it
\* never returns a table whose PKSequence, or a reference whose table name,
\* is not the catalog's answer.
C7_FailFast ==
    (pc = "done" /\ readFailed) =>
        \A k \in 1..Len(result) :
            /\ result[k].PKSequence \in readPKSequence(db, result[k].Name, "ok")
            /\ \A r \in 1..Len(result[k].References) :
                  result[k].References[r].TableName =
                      readReferencedTable(readReferenceConstraintNames(db, result[k].Name)[r], "ok")

\* C8: two calls of ReadTables on the same catalog, all reads of both
\* succeeding, return the same MainUniqueIndexName for every table.
C8_Deterministic ==
    (pc = "done" /\ previous # << >> /\ ~readFailed) => MainNames(result) = previous

\* C9: a table's PKSequence is non-empty only if its primary key is the single
\* column `id` and the normalized name of some sequence equals the normalized
\* name of the primary-key constraint.
C9_SequenceOnlyForSingleId ==
    \A k \in 1..Len(result) :
        result[k].PKSequence # "" =>
            /\ db.tables[result[k].Name].pkColumns = <<"id">>
            /\ \E s \in db.sequences :
                  NormalizeSequence(s) = NormalizeConstraint(db.tables[result[k].Name].pkName)

\* C10: a step of the correction pass leaves the number and order of the
\* tables and every field of every table as they were, except that it may set
\* a MainUniqueIndexName to the empty string.
C10_CorrectionFrame ==
    [][pc = "correct" =>
          /\ Len(result') = Len(result)
          /\ \A k \in 1..Len(result) :
                \/ result'[k] = result[k]
                \/ result'[k] = [result[k] EXCEPT !.MainUniqueIndexName = ""]]_vars

\* The pass has revoked the election of one table and kept that of another.
C10_Witness ==
    /\ pc = "done"
    /\ \E k \in 1..Len(result) : provisional[k] # "" /\ result[k].MainUniqueIndexName = ""
    /\ \E k \in 1..Len(result) : provisional[k] # "" /\ result[k].MainUniqueIndexName = provisional[k]

====
